---------------------------- MODULE Spec2Model ----------------------------
(***************************************************************************)
(* Model of the two notebooks of the repository.                           *)
(*                                                                         *)
(*  - assignment/a2/MLFairness.ipynb: the cell that defines                *)
(*    load_embeddings, calls it and reads embeddings.shape.                *)
(*  - the CNN notebook (unnamed/part_000): the function run and the cells  *)
(*    that call it and evaluate the models it returns.                     *)
(*                                                                         *)
(* Floating point rates and accuracies are kept as scaled integers.        *)
(***************************************************************************)
EXTENDS Integers, Sequences, FiniteSets, TLC

\* ------------------------------------------------------------------------
\* Bounds of the embeddings-file model
\* ------------------------------------------------------------------------
MaxFileItems == 6   \* most items a file holds, over all its lines

\* The items a line of the file is made of: a word, and two numerals.
Tokens == { <<"a">>, <<"1">>, <<"1", "2">> }

\* ------------------------------------------------------------------------
\* Bounds of the calls of run that are explored
\* ------------------------------------------------------------------------
MaxBranches == 2    \* longest num_filters / kernel_sizes list passed
MaxDense == 1       \* longest dense_layer_dims list passed
MaxEpochs == 1      \* largest epochs passed

\* Values the explored calls pass (rates in tenths)
FilterCounts == { 1, 3 }
KernelSizes == { 2, 4 }
DenseDims == { 4, 6 }
DropoutArgs == { 7 }
\* Values the globals read by run may hold
MaxLens == { 3, 40 }
TargetNameCounts == { 2, 5 }

\* ------------------------------------------------------------------------
\* Text helpers: the file as characters, and what the code does to a line
\* ------------------------------------------------------------------------
Whitespace == { " ", "\n", "\t", "\r" }
Digits == { "0", "1", "2", "3", "4", "5", "6", "7", "8", "9" }

DigitValue(c) ==
    CASE c = "0" -> 0 [] c = "1" -> 1 [] c = "2" -> 2 [] c = "3" -> 3
      [] c = "4" -> 4 [] c = "5" -> 5 [] c = "6" -> 6 [] c = "7" -> 7
      [] c = "8" -> 8 [] c = "9" -> 9

\* All sequences over S of length lo..hi
SeqsOf(S, lo, hi) == UNION { [1..n -> S] : n \in lo..hi }

RECURSIVE JoinItems(_)
\* The line a writer of the format produces: items separated by one space.
JoinItems(its) ==
    IF Len(its) = 0 THEN <<>>
    ELSE IF Len(its) = 1 THEN its[1]
    ELSE its[1] \o <<" ">> \o JoinItems(Tail(its))

RECURSIVE rstrip(_)
\* str.rstrip(): drop every trailing whitespace character
rstrip(s) ==
    IF Len(s) = 0 THEN s
    ELSE IF s[Len(s)] \in Whitespace THEN rstrip(SubSeq(s, 1, Len(s) - 1))
    ELSE s

RECURSIVE SplitFrom(_, _, _)
SplitFrom(s, cur, acc) ==
    IF Len(s) = 0 THEN Append(acc, cur)
    ELSE IF Head(s) = " " THEN SplitFrom(Tail(s), <<>>, Append(acc, cur))
    ELSE SplitFrom(Tail(s), Append(cur, Head(s)), acc)

\* str.split(' '): the pieces between single spaces, empty pieces included
split(s) == SplitFrom(s, <<>>, <<>>)

\* float(x) succeeds on the numerals of the model and raises ValueError on
\* anything else
IsFloat(x) == Len(x) > 0 /\ \A k \in 1..Len(x) : x[k] \in Digits

RECURSIVE float(_)
float(x) ==
    IF Len(x) = 0 THEN 0
    ELSE 10 * float(SubSeq(x, 1, Len(x) - 1)) + DigitValue(x[Len(x)])

\* np.vstack(rows) needs at least one row and rows of one length
CanStack(rs) ==
    /\ Len(rs) > 0
    /\ \A k \in 1..Len(rs) : Len(rs[k]) = Len(rs[1])

\* ------------------------------------------------------------------------
\* State of the embeddings cell
\* ------------------------------------------------------------------------
VARIABLES
    fileItems,      \* the items the file was written from, line by line
    infile,         \* the lines of the file as characters
    openError,      \* "none", or the error open() raises on this file
    loadPc,         \* position in the cell
    opens,          \* number of calls of open()
    i,              \* index of the next line of the enumeration
    labels,         \* load_embeddings: labels
    rows,           \* load_embeddings: rows
    raised,         \* the exception that left the cell, or "none"
    returned,       \* the value load_embeddings returned (a table) or NoTable
    embeddings,     \* the global name embeddings: NoTable when unbound
    shapeOut        \* the value of embeddings.shape shown, <<>> when not evaluated

loadVars == << fileItems, infile, openError, loadPc, opens, i, labels, rows,
               raised, returned, embeddings, shapeOut >>

VARIABLES
    \* the kernel of the CNN notebook
    globals,        \* the global names that are bound
    ds,             \* global ds: [target_names |-> number of target names]
    max_len,        \* global max_len
    dropout_rate,   \* global dropout_rate (left by an earlier session, if bound)
    epochs,         \* global epochs (left by an earlier session, if bound)
    models,         \* the models bound to the global names model, model1, ...
    schedule,       \* the cells still to execute, in order
    cell,           \* the cell being executed, 0 when none
    stmt,           \* the statement of the cell to execute next
    errors,         \* the errors that ended cells: <<cell, exception>>
    evalLog,        \* the evaluate calls made, in order
    runCalls,       \* the arguments of the calls of run made, in order
    \* the frame of the running call of run
    runPc,          \* position in run
    kwargs,         \* the keyword arguments of the call
    args,           \* the parameters after defaults are filled in
    num_classes,
    layers,         \* the layers constructed so far, in order
    h,              \* index in layers of the tensor h
    conv_layers_for_all_kernel_sizes,   \* indexes in layers
    dense_i,        \* number of dense_layer_dims entries consumed
    stdout,         \* what the call printed
    epochsDone,     \* epochs fit has finished
    runRaised,      \* the exception that left run, or "none"
    model           \* the model of the frame: what run returns

kernelVars == << globals, ds, max_len, dropout_rate, epochs, models, schedule,
                 cell, stmt, errors, evalLog, runCalls >>
frameVars == << runPc, kwargs, args, num_classes, layers, h,
                conv_layers_for_all_kernel_sizes, dense_i, stdout, epochsDone,
                runRaised, model >>

vars == << loadVars, kernelVars, frameVars >>

NoTable == [bound |-> FALSE, index |-> <<>>, data |-> <<>>]
Table(ix, d) == [bound |-> TRUE, index |-> ix, data |-> d]

OpenErrors == { "FileNotFoundError", "PermissionError" }

\* The lines of a file, from its items in order and, for each item but the
\* last, whether a line ends after it
RECURSIVE CutLines(_, _)
CutLines(its, ends) ==
    IF Len(its) = 0 THEN <<>>
    ELSE LET at == { k \in 1..Len(ends) : ends[k] }
             n == IF at = {} THEN Len(its)
                  ELSE CHOOSE k \in at : \A j \in at : k <= j
         IN  << SubSeq(its, 1, n) >>
             \o CutLines(SubSeq(its, n + 1, Len(its)), SubSeq(ends, n + 1, Len(ends)))

\* fileItems is a file of at most MaxFileItems items, in lines of one item
\* or more
IsBoundedFile ==
    \E m \in 0..MaxFileItems :
        \E its \in [1..m -> Tokens], ends \in [1..(m - 1) -> BOOLEAN] :
            fileItems = CutLines(its, ends)

\* The text of a file written from its items. The last line may lack its
\* newline.
FileText(f, lastNewline) ==
    [k \in 1..Len(f) |->
        IF k = Len(f) /\ ~lastNewline THEN JoinItems(f[k])
        ELSE JoinItems(f[k]) \o <<"\n">>]

LoadInit ==
    /\ \/ /\ openError = "none"
          /\ IsBoundedFile
       \/ /\ openError \in OpenErrors
          /\ fileItems = <<>>
    /\ \E nl \in BOOLEAN : infile = FileText(fileItems, nl)
    /\ loadPc = "call"
    /\ opens = 0
    /\ i = 0
    /\ labels = <<>>
    /\ rows = <<>>
    /\ raised = "none"
    /\ returned = NoTable
    /\ embeddings = NoTable
    /\ shapeOut = <<>>

\* Mutants of the header test: one that also drops the lines of one item, and
\* one that drops no line
IsHeaderUpToTwo(items) == Len(items) <= 2
IsHeaderNever(items) == FALSE

\* The header test of the loop body
IsHeader(items) == Len(items) = 2

\* [float(x) for x in items[1:]]
ValuesOf(items) == [k \in 1..(Len(items) - 1) |-> float(items[k + 1])]
ValuesParse(items) == \A k \in 2..Len(items) : IsFloat(items[k])

\* Mutant of Open: the error of open() is swallowed and the loop is entered
OpenSwallowsError ==
    /\ loadPc = "call"
    /\ opens' = opens + 1
    /\ labels' = <<>>
    /\ rows' = <<>>
    /\ loadPc' = "loop"
    /\ raised' = raised
    /\ UNCHANGED << kernelVars, frameVars, fileItems, infile, openError, i, returned, embeddings, shapeOut >>

\* labels = []; rows = []; open(filename, encoding='utf-8')
Open ==
    /\ loadPc = "call"
    /\ opens' = opens + 1
    /\ labels' = <<>>
    /\ rows' = <<>>
    /\ IF openError = "none"
       THEN /\ loadPc' = "loop"
            /\ raised' = raised
       ELSE /\ loadPc' = "raised"
            /\ raised' = openError
    /\ UNCHANGED << kernelVars, frameVars, fileItems, infile, openError, i, returned, embeddings, shapeOut >>

\* The body of `for i, line in enumerate(infile)` on one line: the labels
\* and rows after it, and the exception it raises ("none" when it does not)
LoopBody(lab, rws, line) ==
    LET items == split(rstrip(line))
    IN  IF IsHeader(items)
        THEN [labels |-> lab, rows |-> rws, raised |-> "none"]
        ELSE IF ValuesParse(items)
        THEN [labels |-> Append(lab, items[1]),
              rows |-> Append(rws, ValuesOf(items)), raised |-> "none"]
        ELSE [labels |-> Append(lab, items[1]), rows |-> rws,
              raised |-> "ValueError"]

\* One iteration of `for i, line in enumerate(infile)`
ReadLine ==
    /\ loadPc = "loop"
    /\ i < Len(infile)
    /\ LET after == LoopBody(labels, rows, infile[i + 1])
       IN  /\ labels' = after.labels
           /\ rows' = after.rows
           /\ IF after.raised = "none"
              THEN /\ i' = i + 1
                   /\ UNCHANGED << loadPc, raised >>
              ELSE /\ loadPc' = "raised"
                   /\ raised' = after.raised
                   /\ i' = i
    /\ UNCHANGED << kernelVars, frameVars, fileItems, infile, openError, opens, returned, embeddings, shapeOut >>

\* What `arr = np.vstack(rows); return pd.DataFrame(arr, index=labels)`
\* gives on the collected labels and rows
Frame(lab, rws) ==
    IF CanStack(rws)
    THEN [raised |-> "none", table |-> Table(lab, rws)]
    ELSE [raised |-> "ValueError", table |-> NoTable]

\* arr = np.vstack(rows); return pd.DataFrame(arr, index=labels, dtype='f')
Stack ==
    /\ loadPc = "loop"
    /\ i = Len(infile)
    /\ LET out == Frame(labels, rows)
       IN  IF out.raised = "none"
           THEN /\ returned' = out.table
                /\ loadPc' = "returned"
                /\ raised' = raised
           ELSE /\ loadPc' = "raised"
                /\ raised' = out.raised
                /\ returned' = returned
    /\ UNCHANGED << kernelVars, frameVars, fileItems, infile, openError, opens, i, labels, rows, embeddings, shapeOut >>

\* embeddings = load_embeddings(...)
Bind ==
    /\ loadPc = "returned"
    /\ embeddings' = returned
    /\ loadPc' = "bound"
    /\ UNCHANGED << kernelVars, frameVars, fileItems, infile, openError, opens, i, labels, rows, raised, returned, shapeOut >>

\* embeddings.shape
Shape ==
    /\ loadPc = "bound"
    /\ shapeOut' = << Len(embeddings.data), Len(embeddings.data[1]) >>
    /\ loadPc' = "done"
    /\ UNCHANGED << kernelVars, frameVars, fileItems, infile, openError, opens, i, labels, rows, raised, returned, embeddings >>

LoadNext == Open \/ ReadLine \/ Stack \/ Bind \/ Shape

\* ------------------------------------------------------------------------
\* load_embeddings as a function of the lines of a readable file
\* ------------------------------------------------------------------------
RECURSIVE LoopFrom(_, _, _)
LoopFrom(lab, rws, lines) ==
    IF Len(lines) = 0 THEN [labels |-> lab, rows |-> rws, raised |-> "none"]
    ELSE LET after == LoopBody(lab, rws, Head(lines))
         IN  IF after.raised = "none"
             THEN LoopFrom(after.labels, after.rows, Tail(lines))
             ELSE after

load_embeddings(lines) ==
    LET loop == LoopFrom(<<>>, <<>>, lines)
    IN  IF loop.raised = "none"
        THEN Frame(loop.labels, loop.rows)
        ELSE [raised |-> loop.raised, table |-> NoTable]

\* ------------------------------------------------------------------------
\* The CNN notebook: the layers run constructs
\* ------------------------------------------------------------------------
ParamNames == { "epochs", "embed_dim", "num_filters", "kernel_sizes",
                "dense_layer_dims", "dropout" }

\* The defaults of `def run(...)`
DefaultArgs ==
    [epochs |-> 10, embed_dim |-> 5, num_filters |-> <<2, 2, 2>>,
     kernel_sizes |-> <<2, 3, 4>>, dense_layer_dims |-> <<512, 256>>,
     dropout |-> 4]

\* A call run(**kw): kw.given are the keywords passed
Keywords(given, e, d, nf, ks, dl, dr) ==
    [given |-> given, epochs |-> e, embed_dim |-> d, num_filters |-> nf,
     kernel_sizes |-> ks, dense_layer_dims |-> dl, dropout |-> dr]

\* Binding of the parameters: the keyword when passed, the default otherwise
FillDefaults(kw) ==
    [epochs |-> IF "epochs" \in kw.given THEN kw.epochs ELSE DefaultArgs.epochs,
     embed_dim |-> IF "embed_dim" \in kw.given THEN kw.embed_dim
                   ELSE DefaultArgs.embed_dim,
     num_filters |-> IF "num_filters" \in kw.given THEN kw.num_filters
                     ELSE DefaultArgs.num_filters,
     kernel_sizes |-> IF "kernel_sizes" \in kw.given THEN kw.kernel_sizes
                      ELSE DefaultArgs.kernel_sizes,
     dense_layer_dims |-> IF "dense_layer_dims" \in kw.given
                          THEN kw.dense_layer_dims
                          ELSE DefaultArgs.dense_layer_dims,
     dropout |-> IF "dropout" \in kw.given THEN kw.dropout
                 ELSE DefaultArgs.dropout]

NoKeywords == Keywords({}, 0, 0, <<>>, <<>>, <<>>, 0)

\* zip(kernel_sizes, num_filters): pairs up to the shorter list, the first
\* component from its first argument
zip(xs, ys) ==
    [k \in 1..(IF Len(xs) < Len(ys) THEN Len(xs) ELSE Len(ys)) |->
        << xs[k], ys[k] >>]

RECURSIVE Sum(_)
Sum(q) == IF Len(q) = 0 THEN 0 ELSE Head(q) + Sum(Tail(q))

\* A constructed layer: its type, its arguments (0 when it has none), the
\* layers feeding it and the shape of its output without the batch axis.
\* NoShape is the output of a constructor that raised.
NoShape == << -1 >>
Layer(type, filters, kernel_size, units, rate, activation, inbound, shape) ==
    [type |-> type, filters |-> filters, kernel_size |-> kernel_size,
     units |-> units, rate |-> rate, activation |-> activation,
     inbound |-> inbound, shape |-> shape]

\* keras.layers.Input(shape=(max_len,))
Input(len) == Layer("Input", 0, 0, 0, 0, "none", <<>>, << len >>)

\* keras.layers.Embedding(ds.vocab.size, embed_dim, input_length=max_len)
Embedding(output_dim, input_length, inp) ==
    Layer("Embedding", 0, 0, output_dim, 0, "none", << inp >>,
          << input_length, output_dim >>)

\* keras.layers.Conv1D(filters=, kernel_size=, activation='relu'): stride 1,
\* no padding, so steps - kernel_size + 1 positions, each with `filters`
\* values; keras raises ValueError when no position is left
Conv1D(filters, kernel_size, inp, inShape) ==
    Layer("Conv1D", filters, kernel_size, 0, 0, "relu", << inp >>,
          IF inShape[1] - kernel_size + 1 >= 1
          THEN << inShape[1] - kernel_size + 1, filters >>
          ELSE NoShape)

\* Mutant of GlobalMaxPooling1D: a pooling that keeps the positions
PoolingKeepsSteps(inp, inShape) ==
    [type |-> "GlobalMaxPooling1D", filters |-> 0, kernel_size |-> 0,
     units |-> 0, rate |-> 0, activation |-> "none", inbound |-> << inp >>,
     shape |-> inShape]

\* keras.layers.GlobalMaxPooling1D(): the maximum over the positions
GlobalMaxPooling1D(inp, inShape) ==
    Layer("GlobalMaxPooling1D", 0, 0, 0, 0, "none", << inp >>,
          << inShape[Len(inShape)] >>)

\* keras.layers.concatenate(tensors, axis=1): axis 1 is the first axis after
\* the batch axis; the other axes must agree. The keras of the recorded
\* session refuses a list of fewer than 2 tensors, later ones a list of
\* fewer than 1: `least` is that number.
CanConcatenate(shapes, least) ==
    /\ Len(shapes) >= least
    /\ \A k \in 1..Len(shapes) :
          /\ Len(shapes[k]) = Len(shapes[1])
          /\ Tail(shapes[k]) = Tail(shapes[1])

concatenate(inbound, shapes, least) ==
    Layer("Concatenate", 0, 0, 0, 0, "none", inbound,
          IF CanConcatenate(shapes, least)
          THEN << Sum([k \in 1..Len(shapes) |-> shapes[k][1]]) >>
               \o Tail(shapes[1])
          ELSE NoShape)

\* keras.layers.Dropout(rate=)
Dropout(rate, inp, inShape) ==
    Layer("Dropout", 0, 0, 0, rate, "none", << inp >>, inShape)

\* keras.layers.Dense(units, activation=)
Dense(units, activation, inp, inShape) ==
    Layer("Dense", 0, 0, units, 0, activation, << inp >>,
          SubSeq(inShape, 1, Len(inShape) - 1) \o << units >>)

NoModel == [built |-> FALSE, layers |-> <<>>, compiled |-> FALSE, epochs |-> 0]

\* ------------------------------------------------------------------------
\* The CNN notebook: the steps of run
\* ------------------------------------------------------------------------
\* A statement that reads an unbound global name raises NameError
Raise(exc) ==
    /\ runPc' = "raised"
    /\ runRaised' = exc

\* num_classes = len(ds.target_names)
RunNumClasses ==
    /\ runPc = "called"
    /\ IF "ds" \in globals
       THEN /\ num_classes' = ds.target_names
            /\ runPc' = "input"
            /\ UNCHANGED runRaised
       ELSE /\ Raise("NameError")
            /\ UNCHANGED num_classes
    /\ UNCHANGED << loadVars, kernelVars, kwargs, args, layers, h,
                    conv_layers_for_all_kernel_sizes, dense_i, stdout,
                    epochsDone, model >>

\* wordids = keras.layers.Input(shape=(max_len,))
RunInput ==
    /\ runPc = "input"
    /\ IF { "keras", "max_len" } \subseteq globals
       THEN /\ layers' = << Input(max_len) >>
            /\ runPc' = "embedding"
            /\ UNCHANGED runRaised
       ELSE /\ Raise("NameError")
            /\ UNCHANGED layers
    /\ UNCHANGED << loadVars, kernelVars, kwargs, args, num_classes, h,
                    conv_layers_for_all_kernel_sizes, dense_i, stdout,
                    epochsDone, model >>

\* h = keras.layers.Embedding(ds.vocab.size, embed_dim, input_length=max_len)(wordids)
\* conv_layers_for_all_kernel_sizes = []
RunEmbedding ==
    /\ runPc = "embedding"
    /\ layers' = Append(layers, Embedding(args.embed_dim, max_len, 1))
    /\ h' = Len(layers) + 1
    /\ conv_layers_for_all_kernel_sizes' = <<>>
    /\ runPc' = "conv"
    /\ UNCHANGED << loadVars, kernelVars, kwargs, args, num_classes, dense_i,
                    stdout, epochsDone, runRaised, model >>

\* The pairs the convolution loop iterates over
ConvPairs(a) == zip(a.kernel_sizes, a.num_filters)

\* The loop variables `filters, kernel_size` of the k-th iteration
LoopFilters(a, k) == ConvPairs(a)[k][1]
LoopKernelSize(a, k) == ConvPairs(a)[k][2]

\* One iteration of `for filters, kernel_size in zip(kernel_sizes, num_filters)`
RunConvBranch ==
    /\ runPc = "conv"
    /\ Len(conv_layers_for_all_kernel_sizes) < Len(ConvPairs(args))
    /\ LET k == Len(conv_layers_for_all_kernel_sizes) + 1
           conv == Conv1D(LoopFilters(args, k), LoopKernelSize(args, k), h,
                          layers[h].shape)
           pool == GlobalMaxPooling1D(Len(layers) + 1, conv.shape)
       IN  IF conv.shape = NoShape
           THEN /\ Raise("ValueError")
                /\ UNCHANGED << layers, conv_layers_for_all_kernel_sizes >>
           ELSE /\ layers' = layers \o << conv, pool >>
                /\ conv_layers_for_all_kernel_sizes' =
                      Append(conv_layers_for_all_kernel_sizes, Len(layers) + 2)
                /\ UNCHANGED << runPc, runRaised >>
    /\ UNCHANGED << loadVars, kernelVars, kwargs, args, num_classes, h,
                    dense_i, stdout, epochsDone, model >>

\* h = keras.layers.concatenate(conv_layers_for_all_kernel_sizes, axis=1)
RunConcat ==
    /\ runPc = "conv"
    /\ Len(conv_layers_for_all_kernel_sizes) = Len(ConvPairs(args))
    /\ \E least \in { 1, 2 } :
       LET ins == conv_layers_for_all_kernel_sizes
           cat == concatenate(ins, [k \in 1..Len(ins) |-> layers[ins[k]].shape],
                              least)
       IN  IF cat.shape = NoShape
           THEN /\ Raise("ValueError")
                /\ UNCHANGED << layers, h >>
           ELSE /\ layers' = Append(layers, cat)
                /\ h' = Len(layers) + 1
                /\ runPc' = "dropout"
                /\ UNCHANGED runRaised
    /\ UNCHANGED << loadVars, kernelVars, kwargs, args, num_classes,
                    conv_layers_for_all_kernel_sizes, dense_i, stdout,
                    epochsDone, model >>

\* The rate the dropout layer is constructed with
DropoutRate == dropout_rate

\* h = keras.layers.Dropout(rate=dropout_rate)(h)
RunDropout ==
    /\ runPc = "dropout"
    /\ IF "dropout_rate" \in globals
       THEN /\ layers' = Append(layers, Dropout(DropoutRate, h, layers[h].shape))
            /\ h' = Len(layers) + 1
            /\ dense_i' = 0
            /\ runPc' = "dense"
            /\ UNCHANGED runRaised
       ELSE /\ Raise("NameError")
            /\ UNCHANGED << layers, h, dense_i >>
    /\ UNCHANGED << loadVars, kernelVars, kwargs, args, num_classes,
                    conv_layers_for_all_kernel_sizes, stdout, epochsDone, model >>

\* Mutant of RunDense: the new layer is not assigned to h, so the layers are
\* not chained
RunDenseUnchained ==
    /\ runPc = "dense"
    /\ dense_i < Len(args.dense_layer_dims)
    /\ layers' = Append(layers, Dense(args.dense_layer_dims[dense_i + 1], "relu",
                                      h, layers[h].shape))
    /\ dense_i' = dense_i + 1
    /\ UNCHANGED << loadVars, kernelVars, runPc, kwargs, args, num_classes, h,
                    conv_layers_for_all_kernel_sizes, stdout, epochsDone,
                    runRaised, model >>

\* One iteration of `for dim in dense_layer_dims`:
\*     h = keras.layers.Dense(dim, activation='relu')(h)
RunDense ==
    /\ runPc = "dense"
    /\ dense_i < Len(args.dense_layer_dims)
    /\ layers' = Append(layers, Dense(args.dense_layer_dims[dense_i + 1], "relu",
                                      h, layers[h].shape))
    /\ h' = Len(layers) + 1
    /\ dense_i' = dense_i + 1
    /\ UNCHANGED << loadVars, kernelVars, runPc, kwargs, args, num_classes,
                    conv_layers_for_all_kernel_sizes, stdout, epochsDone,
                    runRaised, model >>

\* prediction = keras.layers.Dense(num_classes, activation='softmax')(h)
RunOutput ==
    /\ runPc = "dense"
    /\ dense_i = Len(args.dense_layer_dims)
    /\ layers' = Append(layers, Dense(num_classes, "softmax", h, layers[h].shape))
    /\ runPc' = "compile"
    /\ UNCHANGED << loadVars, kernelVars, kwargs, args, num_classes, h,
                    conv_layers_for_all_kernel_sizes, dense_i, stdout,
                    epochsDone, runRaised, model >>

\* model = keras.Model(inputs=wordids, outputs=prediction); model.compile(...)
RunCompile ==
    /\ runPc = "compile"
    /\ model' = [built |-> TRUE, layers |-> layers, compiled |-> TRUE, epochs |-> 0]
    /\ runPc' = "print"
    /\ UNCHANGED << loadVars, kernelVars, kwargs, args, num_classes, layers, h,
                    conv_layers_for_all_kernel_sizes, dense_i, stdout,
                    epochsDone, runRaised >>

\* The dictionary run prints
Printed(a) ==
    [epochs |-> a.epochs, embed_dim |-> a.embed_dim,
     num_filters |-> a.num_filters, kernel_sizes |-> a.kernel_sizes,
     dense_layer_dims |-> a.dense_layer_dims, dropout |-> a.dropout]

\* print({...})
RunPrint ==
    /\ runPc = "print"
    /\ stdout' = Append(stdout, << "config", Printed(args) >>)
    /\ runPc' = "reset"
    /\ UNCHANGED << loadVars, kernelVars, kwargs, args, num_classes, layers, h,
                    conv_layers_for_all_kernel_sizes, dense_i, epochsDone,
                    runRaised, model >>

\* model.reset_states(): the model has no stateful layer and no epoch yet
RunResetStates ==
    /\ runPc = "reset"
    /\ epochsDone' = 0
    /\ model' = [model EXCEPT !.epochs = 0]
    /\ runPc' = "fit"
    /\ UNCHANGED << loadVars, kernelVars, kwargs, args, num_classes, layers, h,
                    conv_layers_for_all_kernel_sizes, dense_i, stdout, runRaised >>

\* The progress line fit prints for an epoch: "Epoch n/total"
EpochLine(n, total) == << "Epoch", n, total >>

\* model.fit(train_x, train_y, epochs=epochs): one epoch
RunFit ==
    /\ runPc = "fit"
    /\ epochsDone < args.epochs
    /\ IF { "train_x", "train_y" } \subseteq globals
       THEN /\ epochsDone' = epochsDone + 1
            /\ stdout' = Append(stdout, EpochLine(epochsDone + 1, args.epochs))
            /\ model' = [model EXCEPT !.epochs = epochsDone + 1]
            /\ UNCHANGED << runPc, runRaised >>
       ELSE /\ Raise("NameError")
            /\ UNCHANGED << epochsDone, stdout, model >>
    /\ UNCHANGED << loadVars, kernelVars, kwargs, args, num_classes, layers, h,
                    conv_layers_for_all_kernel_sizes, dense_i >>

\* Mutant of RunReturn: the model is returned whether or not the last epoch
\* has finished
RunReturnBeforeLastEpoch ==
    /\ runPc = "fit"
    /\ epochsDone <= args.epochs
    /\ runPc' = "returned"
    /\ UNCHANGED << loadVars, kernelVars, kwargs, args, num_classes, layers, h,
                    conv_layers_for_all_kernel_sizes, dense_i, stdout,
                    epochsDone, runRaised, model >>

\* return model
RunReturn ==
    /\ runPc = "fit"
    /\ epochsDone = args.epochs
    /\ runPc' = "returned"
    /\ UNCHANGED << loadVars, kernelVars, kwargs, args, num_classes, layers, h,
                    conv_layers_for_all_kernel_sizes, dense_i, stdout,
                    epochsDone, runRaised, model >>

RunStep ==
    \/ RunNumClasses \/ RunInput \/ RunEmbedding \/ RunConvBranch \/ RunConcat
    \/ RunDropout \/ RunDense \/ RunOutput \/ RunCompile \/ RunPrint
    \/ RunResetStates \/ RunFit \/ RunReturn

\* ------------------------------------------------------------------------
\* The CNN notebook: its code cells
\* ------------------------------------------------------------------------
ModelNames == { "model", "model1", "model2", "model3", "model4", "model5",
                "model6", "model7", "model8", "model9" }

\* A statement of a cell: what it does, the model name it reads or binds,
\* the split it evaluates on, the keywords of its call of run, and the
\* accuracy its recorded output shows (in 1/10000)
Stmt(op, name, on, kw, acc) ==
    [op |-> op, name |-> name, split |-> on, kw |-> kw, acc |-> acc]

ImportStmt == Stmt("import", "", "", NoKeywords, 0)
LoadDataStmt == Stmt("load", "", "", NoKeywords, 0)
DefRunStmt == Stmt("def", "run", "", NoKeywords, 0)
ResetStmt(name) == Stmt("reset_states", name, "", NoKeywords, 0)
FitStmt(name) == Stmt("fit", name, "", NoKeywords, 0)
EvaluateStmt(name, on, acc) == Stmt("evaluate", name, on, NoKeywords, acc)
RunStmt(name, kw) == Stmt("run", name, "", kw, 0)

\* Mutant of TestCellStmts: model4 is evaluated in the place of model5
TestCellStmtsWithModel4 ==
    << EvaluateStmt("model4", "test", 7765),
       EvaluateStmt("model7", "test", 7798),
       EvaluateStmt("model8", "test", 7611) >>

\* The statements of the cell that evaluates on the test split
TestCellStmts ==
    << EvaluateStmt("model5", "test", 7765),
       EvaluateStmt("model7", "test", 7798),
       EvaluateStmt("model8", "test", 7611) >>

\* The calls of run of the tuning section, in document order
RunCells ==
    << RunStmt("model1", Keywords({ "embed_dim" }, 0, 50, <<>>, <<>>, <<>>, 0)),
       RunStmt("model2", Keywords({ "embed_dim", "dropout", "dense_layer_dims" },
                                  0, 100, <<>>, <<>>, <<256, 256>>, 7)),
       RunStmt("model3", Keywords({ "embed_dim", "dropout", "dense_layer_dims",
                                    "num_filters", "kernel_sizes" },
                                  0, 100, <<2, 2, 2>>, <<2, 4, 8>>, <<128, 128>>, 7)),
       RunStmt("model4", Keywords({ "embed_dim", "dropout", "dense_layer_dims",
                                    "num_filters", "kernel_sizes" },
                                  0, 100, <<2, 2, 2>>, <<2, 4, 8>>, <<64, 32>>, 8)),
       RunStmt("model5", Keywords(ParamNames,
                                  5, 100, <<2, 2, 2>>, <<2, 4, 8>>, <<64, 32>>, 8)),
       RunStmt("model6", Keywords(ParamNames,
                                  5, 50, <<2, 2, 2>>, <<2, 4, 6>>, <<128, 64>>, 7)),
       RunStmt("model7", Keywords(ParamNames,
                                  5, 100, <<2, 2, 2>>, <<2, 4, 6>>, <<64, 32>>, 6)),
       RunStmt("model8", Keywords(ParamNames,
                                  5, 100, <<2, 2, 2>>, <<2, 4, 6>>, <<128, 64>>, 8)),
       RunStmt("model9", Keywords(ParamNames,
                                  5, 25, <<2, 2, 2>>, <<2, 4, 6>>, <<128, 64>>, 8)) >>

Cell(count, stmts) == [execution_count |-> count, stmts |-> stmts]

\* The code cells in document order, with their recorded execution counts
\* (0 for the cell that has none)
Cells ==
    << Cell(1, << ImportStmt >>),
       Cell(2, << LoadDataStmt >>),
       Cell(27, << DefRunStmt >>),
       Cell(20, << ResetStmt("model"), FitStmt("model") >>),
       Cell(21, << EvaluateStmt("model", "dev", 6950) >>),
       Cell(28, << RunCells[1] >>),
       Cell(29, << EvaluateStmt("model1", "dev", 7466) >>),
       Cell(30, << RunCells[2] >>),
       Cell(31, << EvaluateStmt("model2", "dev", 7294) >>),
       Cell(32, << RunCells[3] >>),
       Cell(33, << EvaluateStmt("model3", "dev", 7466) >>),
       Cell(34, << RunCells[4] >>),
       Cell(35, << EvaluateStmt("model4", "dev", 7500) >>),
       Cell(44, << RunCells[5] >>),
       Cell(45, << EvaluateStmt("model5", "dev", 7569) >>),
       Cell(38, << RunCells[6] >>),
       Cell(39, << EvaluateStmt("model6", "dev", 7431) >>),
       Cell(40, << RunCells[7] >>),
       Cell(41, << EvaluateStmt("model7", "dev", 7603) >>),
       Cell(42, << RunCells[8] >>),
       Cell(43, << EvaluateStmt("model8", "dev", 7638) >>),
       Cell(47, TestCellStmts),
       Cell(48, << RunCells[9] >>),
       Cell(49, << EvaluateStmt("model9", "dev", 7511) >>),
       Cell(0, <<>>) >>

\* Executing every code cell once, top to bottom
DocumentOrder == [k \in 1..Len(Cells) |-> k]

RECURSIVE InsertByCount(_, _)
InsertByCount(q, c) ==
    IF Len(q) = 0 THEN << c >>
    ELSE IF Cells[c].execution_count < Cells[Head(q)].execution_count
    THEN << c >> \o q
    ELSE << Head(q) >> \o InsertByCount(Tail(q), c)

RECURSIVE SortByCount(_)
SortByCount(q) ==
    IF Len(q) = 0 THEN <<>>
    ELSE InsertByCount(SortByCount(Tail(q)), Head(q))

\* Mutant of ExecutionOrder: the cells that have a count, by decreasing count
ExecutionOrderDescending ==
    LET up == SortByCount(SelectSeq(DocumentOrder,
                                    LAMBDA c : Cells[c].execution_count > 0))
    IN  [k \in 1..Len(up) |-> up[Len(up) - k + 1]]

\* The order the recorded execution counts give: the cells that have a
\* count, by increasing count
ExecutionOrder ==
    SortByCount(SelectSeq(DocumentOrder, LAMBDA c : Cells[c].execution_count > 0))

\* Names bound by the first two cells
ImportedNames == { "keras", "np", "pd", "tf", "sst" }
DataNames == { "ds", "max_len", "train_x", "train_y", "dev_x", "dev_y",
               "test_x", "test_y" }
\* Names the recorded outputs show were bound in the recorded session, by
\* cells the notebook no longer holds
SessionNames == { "model", "epochs", "dropout_rate" }
SessionRates == { 4, 8 }
SessionModel ==
    [built |-> TRUE, layers |-> <<>>, compiled |-> TRUE, epochs |-> 0, id |-> 0]
Unbound ==
    [built |-> FALSE, layers |-> <<>>, compiled |-> FALSE, epochs |-> 0, id |-> 0]

\* ------------------------------------------------------------------------
\* The CNN notebook: executing cells
\* ------------------------------------------------------------------------
Executing == cell # 0 /\ runPc = "idle" /\ stmt <= Len(Cells[cell].stmts)
Current == Cells[cell].stmts[stmt]

\* An exception reaches the top of the cell: the rest of the cell is skipped
AbortCell(exc) ==
    /\ errors' = Append(errors, << cell, exc >>)
    /\ cell' = 0
    /\ stmt' = 0

BeginCell ==
    /\ cell = 0
    /\ runPc = "idle"
    /\ schedule # <<>>
    /\ cell' = Head(schedule)
    /\ schedule' = Tail(schedule)
    /\ stmt' = 1
    /\ UNCHANGED << loadVars, frameVars, globals, ds, max_len, dropout_rate,
                    epochs, models, errors, evalLog, runCalls >>

EndCell ==
    /\ cell # 0
    /\ runPc = "idle"
    /\ stmt > Len(Cells[cell].stmts)
    /\ cell' = 0
    /\ stmt' = 0
    /\ UNCHANGED << loadVars, frameVars, globals, ds, max_len, dropout_rate,
                    epochs, models, schedule, errors, evalLog, runCalls >>

\* from tensorflow import keras; import sst; ...
ExecImport ==
    /\ Executing
    /\ Current.op = "import"
    /\ globals' = globals \cup ImportedNames
    /\ stmt' = stmt + 1
    /\ UNCHANGED << loadVars, frameVars, ds, max_len, dropout_rate, epochs,
                    models, schedule, cell, errors, evalLog, runCalls >>

\* ds = sst.SSTDataset(V=20000).process(label_scheme="binary"); max_len = 40;
\* train_x, ... = ds.as_padded_array(...)
ExecLoadData ==
    /\ Executing
    /\ Current.op = "load"
    /\ IF "sst" \in globals
       THEN /\ globals' = globals \cup DataNames
            /\ ds' = [target_names |-> 2]
            /\ max_len' = 40
            /\ stmt' = stmt + 1
            /\ UNCHANGED << cell, errors >>
       ELSE /\ AbortCell("NameError")
            /\ UNCHANGED << globals, ds, max_len >>
    /\ UNCHANGED << loadVars, frameVars, dropout_rate, epochs, models,
                    schedule, evalLog, runCalls >>

\* def run(...): ...
ExecDef ==
    /\ Executing
    /\ Current.op = "def"
    /\ globals' = globals \cup { Current.name }
    /\ stmt' = stmt + 1
    /\ UNCHANGED << loadVars, frameVars, ds, max_len, dropout_rate, epochs,
                    models, schedule, cell, errors, evalLog, runCalls >>

\* model.reset_states()
ExecResetStates ==
    /\ Executing
    /\ Current.op = "reset_states"
    /\ IF Current.name \in globals
       THEN /\ stmt' = stmt + 1
            /\ UNCHANGED << cell, errors >>
       ELSE AbortCell("NameError")
    /\ UNCHANGED << loadVars, frameVars, globals, ds, max_len, dropout_rate,
                    epochs, models, schedule, evalLog, runCalls >>

\* model.fit(train_x, train_y, epochs=epochs)
ExecFit ==
    /\ Executing
    /\ Current.op = "fit"
    /\ IF { Current.name, "train_x", "train_y", "epochs" } \subseteq globals
       THEN /\ models' = [models EXCEPT ![Current.name].epochs = @ + epochs]
            /\ stmt' = stmt + 1
            /\ UNCHANGED << cell, errors >>
       ELSE /\ AbortCell("NameError")
            /\ UNCHANGED models
    /\ UNCHANGED << loadVars, frameVars, globals, ds, max_len, dropout_rate,
                    epochs, schedule, evalLog, runCalls >>

\* The record of a call <name>.evaluate(<split>_x, <split>_y)
Evaluation(s) ==
    [name |-> s.name, split |-> s.split, acc |-> s.acc,
     id |-> models[s.name].id, bound |-> globals \cap ModelNames]

\* <name>.evaluate(<split>_x, <split>_y)
ExecEvaluate ==
    /\ Executing
    /\ Current.op = "evaluate"
    /\ IF Current.name \in globals /\ (IF Current.split = "dev"
                                       THEN { "dev_x", "dev_y" }
                                       ELSE { "test_x", "test_y" }) \subseteq globals
       THEN /\ evalLog' = Append(evalLog, Evaluation(Current))
            /\ stmt' = stmt + 1
            /\ UNCHANGED << cell, errors >>
       ELSE /\ AbortCell("NameError")
            /\ UNCHANGED evalLog
    /\ UNCHANGED << loadVars, frameVars, globals, ds, max_len, dropout_rate,
                    epochs, models, schedule, runCalls >>

\* <name> = run(...): the call is made
ExecCallRun ==
    /\ Executing
    /\ Current.op = "run"
    /\ IF "run" \in globals
       THEN /\ runPc' = "called"
            /\ kwargs' = Current.kw
            /\ args' = FillDefaults(Current.kw)
            /\ runCalls' = Append(runCalls, FillDefaults(Current.kw))
            /\ num_classes' = 0
            /\ layers' = <<>>
            /\ h' = 0
            /\ conv_layers_for_all_kernel_sizes' = <<>>
            /\ dense_i' = 0
            /\ stdout' = <<>>
            /\ epochsDone' = 0
            /\ runRaised' = "none"
            /\ model' = NoModel
            /\ UNCHANGED << cell, stmt, errors >>
       ELSE /\ AbortCell("NameError")
            /\ UNCHANGED << frameVars, runCalls >>
    /\ UNCHANGED << loadVars, globals, ds, max_len, dropout_rate, epochs,
                    models, schedule, evalLog >>

\* <name> = run(...): the returned model is bound to the name
ExecBindModel ==
    /\ cell # 0
    /\ runPc = "returned"
    /\ models' = [models EXCEPT ![Current.name] =
                     [built |-> TRUE, layers |-> model.layers,
                      compiled |-> model.compiled, epochs |-> model.epochs,
                      id |-> Len(runCalls)]]
    /\ globals' = globals \cup { Current.name }
    /\ runPc' = "idle"
    /\ stmt' = stmt + 1
    /\ UNCHANGED << loadVars, ds, max_len, dropout_rate, epochs, schedule,
                    cell, errors, evalLog, runCalls, kwargs, args, num_classes,
                    layers, h, conv_layers_for_all_kernel_sizes, dense_i,
                    stdout, epochsDone, runRaised, model >>

\* <name> = run(...): the exception that left run ends the cell
ExecRunRaised ==
    /\ cell # 0
    /\ runPc = "raised"
    /\ AbortCell(runRaised)
    /\ runPc' = "idle"
    /\ UNCHANGED << loadVars, globals, ds, max_len, dropout_rate, epochs,
                    models, schedule, evalLog, runCalls, kwargs, args,
                    num_classes, layers, h, conv_layers_for_all_kernel_sizes,
                    dense_i, stdout, epochsDone, runRaised, model >>

CellStep ==
    \/ BeginCell \/ EndCell \/ ExecImport \/ ExecLoadData \/ ExecDef
    \/ ExecResetStates \/ ExecFit \/ ExecEvaluate \/ ExecCallRun
    \/ ExecBindModel \/ ExecRunRaised

\* ------------------------------------------------------------------------
\* Specifications
\* ------------------------------------------------------------------------
LoadIdle ==
    /\ fileItems = <<>>
    /\ infile = <<>>
    /\ openError = "none"
    /\ loadPc = "idle"
    /\ opens = 0
    /\ i = 0
    /\ labels = <<>>
    /\ rows = <<>>
    /\ raised = "none"
    /\ returned = NoTable
    /\ embeddings = NoTable
    /\ shapeOut = <<>>

FrameIdle ==
    /\ runPc = "idle"
    /\ kwargs = NoKeywords
    /\ args = DefaultArgs
    /\ num_classes = 0
    /\ layers = <<>>
    /\ h = 0
    /\ conv_layers_for_all_kernel_sizes = <<>>
    /\ dense_i = 0
    /\ stdout = <<>>
    /\ epochsDone = 0
    /\ runRaised = "none"
    /\ model = NoModel

KernelIdle ==
    /\ globals = {}
    /\ ds = [target_names |-> 0]
    /\ max_len = 0
    /\ dropout_rate = 0
    /\ epochs = 0
    /\ models = [n \in ModelNames |-> Unbound]
    /\ schedule = <<>>
    /\ cell = 0
    /\ stmt = 0
    /\ errors = <<>>
    /\ evalLog = <<>>
    /\ runCalls = <<>>

\* The embeddings cell, on every file of the bounds
InitLoad == LoadInit /\ KernelIdle /\ FrameIdle
SpecLoad == InitLoad /\ [][LoadNext]_vars

\* A keyword is passed with one of the values, or left out
Passed(name, values, none) ==
    { << {}, none >> } \cup { << { name }, v >> : v \in values }

KeywordCalls ==
    { Keywords(e[1] \cup d[1] \cup nf[1] \cup ks[1] \cup dl[1] \cup dr[1],
               e[2], d[2], nf[2], ks[2], dl[2], dr[2]) :
        e \in Passed("epochs", 1..MaxEpochs, 0),
        d \in Passed("embed_dim", {}, 0),
        nf \in Passed("num_filters", SeqsOf(FilterCounts, 0, MaxBranches), <<>>),
        ks \in Passed("kernel_sizes", SeqsOf(KernelSizes, 0, MaxBranches), <<>>),
        dl \in Passed("dense_layer_dims", SeqsOf(DenseDims, 0, MaxDense), <<>>),
        dr \in Passed("dropout", DropoutArgs, 0) }

\* One call of run, with any keywords of the bounds (embed_dim, which only
\* sizes the embedding, is left to its default), in a kernel where the first
\* two cells have run and dropout_rate is bound or not
InitRun ==
    /\ LoadIdle
    /\ \/ /\ globals = ImportedNames \cup DataNames \cup { "run" }
          /\ dropout_rate = 0
       \/ /\ globals = ImportedNames \cup DataNames \cup { "run", "dropout_rate" }
          /\ dropout_rate = DefaultArgs.dropout
    /\ ds \in [target_names : TargetNameCounts]
    /\ max_len \in MaxLens
    /\ epochs = 0
    /\ models = [n \in ModelNames |-> Unbound]
    /\ schedule = <<>>
    /\ cell = 0
    /\ stmt = 0
    /\ errors = <<>>
    /\ evalLog = <<>>
    /\ kwargs \in KeywordCalls
    /\ args = FillDefaults(kwargs)
    /\ runCalls = << args >>
    /\ runPc = "called"
    /\ num_classes = 0
    /\ layers = <<>>
    /\ h = 0
    /\ conv_layers_for_all_kernel_sizes = <<>>
    /\ dense_i = 0
    /\ stdout = <<>>
    /\ epochsDone = 0
    /\ runRaised = "none"
    /\ model = NoModel

SpecRun == InitRun /\ [][RunStep]_vars

\* The cells of the notebook, executed top to bottom or in the order of the
\* recorded execution counts, in a fresh kernel or in one that holds the
\* names of the recorded session
InitNotebook ==
    /\ LoadIdle
    /\ FrameIdle
    /\ schedule \in { DocumentOrder, ExecutionOrder }
    /\ \/ /\ globals = {}
          /\ dropout_rate = 0
          /\ epochs = 0
          /\ models = [n \in ModelNames |-> Unbound]
       \/ /\ globals = SessionNames
          /\ dropout_rate \in SessionRates
          /\ epochs = DefaultArgs.epochs
          /\ models = [n \in ModelNames |->
                          IF n = "model" THEN SessionModel ELSE Unbound]
    /\ ds = [target_names |-> 0]
    /\ max_len = 0
    /\ cell = 0
    /\ stmt = 0
    /\ errors = <<>>
    /\ evalLog = <<>>
    /\ runCalls = <<>>

NotebookNext == CellStep \/ RunStep

SpecNotebook == InitNotebook /\ [][NotebookNext]_vars

\* ------------------------------------------------------------------------
\* Claims about load_embeddings
\* ------------------------------------------------------------------------
\* The call has ended: it returned or an exception left it
LoadEnded == loadPc \in { "raised", "returned", "bound", "done" }

\* The lines of the written file that do not have exactly two items
KeptLines == SelectSeq(fileItems, LAMBDA l : Len(l) # 2)

\* The table the claims describe: one row per kept line, in file order, the
\* label its first item and the values its remaining items
RowOfLine(l) == [k \in 1..(Len(l) - 1) |-> float(l[k + 1])]
NumericLine(l) == \A k \in 2..Len(l) : IsFloat(l[k])

IsExpectedTable(t) ==
    /\ t.bound
    /\ Len(t.index) = Len(KeptLines)
    /\ Len(t.data) = Len(KeptLines)
    /\ \A k \in 1..Len(KeptLines) :
          /\ t.index[k] = KeptLines[k][1]
          /\ NumericLine(KeptLines[k])
          /\ t.data[k] = RowOfLine(KeptLines[k])

\* The kept lines form a matrix: there is one, they have one length, and
\* their items after the first are numerals
WellFormedFile ==
    /\ Len(KeptLines) > 0
    /\ \A k \in 1..Len(KeptLines) :
          /\ Len(KeptLines[k]) = Len(KeptLines[1])
          /\ NumericLine(KeptLines[k])

\* C1 as stated: for every readable file of space-separated items the call
\* returns the table with one row per line that does not have exactly two
\* items, in file order.
C1_EveryReadableFile ==
    (openError = "none" /\ LoadEnded) => IsExpectedTable(returned)

\* C1 amended: for every readable file of space-separated items whose lines
\* without exactly two items exist, have one common number of items and carry
\* numerals after the first item, no exception leaves load_embeddings and it
\* returns the table with one row per such line, in file order, also when a
\* label repeats: label = first item, values = the remaining items in order.
C1_WellFormedFileTable ==
    (openError = "none" /\ WellFormedFile) =>
        /\ raised = "none"
        /\ (loadPc \in { "returned", "bound", "done" } => IsExpectedTable(returned))
        /\ (loadPc \in { "bound", "done" } => embeddings = returned)

\* C1 witness: a two-row table was returned for a file with a repeated label
\* and rows that differ
C1_Witness ==
    /\ loadPc = "done"
    /\ WellFormedFile
    /\ Len(returned.data) = 2
    /\ returned.index[1] = returned.index[2]
    /\ returned.data[1] # returned.data[2]
    /\ Len(returned.data[1]) = 2
    /\ returned.data[1][1] # returned.data[1][2]

\* C2: a leading two-item dimensions line does not change the result. When
\* the file is a two-item line followed by data lines (label and two or more
\* values), the call ends as load_embeddings does on the data lines alone.
HeaderThenData ==
    /\ Len(fileItems) >= 1
    /\ Len(fileItems[1]) = 2
    /\ \A k \in 2..Len(fileItems) : Len(fileItems[k]) >= 3

C2_HeaderInvariance ==
    (openError = "none" /\ HeaderThenData /\ LoadEnded) =>
        LET alone == load_embeddings(Tail(infile))
        IN  /\ raised = alone.raised
            /\ returned = alone.table

\* C2 witness: a header followed by a data line gave a one-row table
C2_Witness ==
    /\ HeaderThenData
    /\ Len(fileItems) = 2
    /\ loadPc = "done"
    /\ Len(returned.index) = 1
    /\ shapeOut = << 1, 2 >>

\* C3: when the file cannot be opened the error of open() leaves the call
\* unchanged: one call of open, nothing returned, nothing collected, the name
\* embeddings unbound and embeddings.shape not evaluated.
C3_OpenErrorPropagates ==
    (openError # "none" /\ loadPc # "call") =>
        /\ loadPc = "raised"
        /\ raised = openError
        /\ opens = 1
        /\ ~returned.bound
        /\ ~embeddings.bound
        /\ shapeOut = <<>>
        /\ i = 0

\* C3 witness: the call ended on FileNotFoundError
C3_Witness ==
    /\ loadPc = "raised"
    /\ raised = "FileNotFoundError"
    /\ opens = 1

\* ------------------------------------------------------------------------
\* Claims about run
\* ------------------------------------------------------------------------
LayersOfType(ls, type) == SelectSeq(ls, LAMBDA l : l.type = type)
ConvLayers == LayersOfType(layers, "Conv1D")
IndexesOfType(type) == { k \in 1..Len(layers) : layers[k].type = type }

\* The convolution loop has ended and the branches were concatenated
ConvDone == runPc \in { "dropout", "dense", "compile", "print", "reset", "fit",
                         "returned" }
\* The output layer has been added
OutputDone == runPc \in { "compile", "print", "reset", "fit", "returned" }

\* C4 as stated: the i-th convolution layer is constructed with
\* filters = num_filters[i] and kernel_size = kernel_sizes[i].
C4_ConvLayerArguments ==
    \A k \in 1..Len(ConvLayers) :
        /\ ConvLayers[k].filters = args.num_filters[k]
        /\ ConvLayers[k].kernel_size = args.kernel_sizes[k]

\* C5: once the output layer is added, the layers after the dropout layer
\* are one hidden dense layer per entry of dense_layer_dims, the j-th with
\* dense_layer_dims[j] units and fed by the layer before it, then one output
\* layer with len(ds.target_names) units; with no entry the output layer is
\* fed by the dropout layer. While the loop runs the same holds of the
\* entries consumed so far.
HiddenDenseOk(ls, d, n) ==
    \A j \in 1..n :
        /\ ls[d + j].type = "Dense"
        /\ ls[d + j].activation = "relu"
        /\ ls[d + j].units = args.dense_layer_dims[j]
        /\ ls[d + j].inbound = << d + j - 1 >>
        /\ ls[d + j].shape = << args.dense_layer_dims[j] >>

C5_DenseLayersFollowDims ==
    \A d \in IndexesOfType("Dropout") :
        LET n == Len(args.dense_layer_dims)
        IN  /\ runPc = "dense" =>
                 /\ Len(layers) = d + dense_i
                 /\ HiddenDenseOk(layers, d, dense_i)
                 /\ h = d + dense_i
            /\ OutputDone =>
                 /\ Len(layers) = d + n + 1
                 /\ HiddenDenseOk(layers, d, n)
                 /\ layers[d + n + 1].type = "Dense"
                 /\ layers[d + n + 1].activation = "softmax"
                 /\ layers[d + n + 1].units = ds.target_names
                 /\ layers[d + n + 1].inbound = << d + n >>
                 /\ layers[d + n + 1].shape = << ds.target_names >>
            /\ runPc = "returned" => model.layers = layers

\* C5 witness: a model was returned with two hidden dense layers of
\* different sizes
C5_Witness ==
    /\ runPc = "returned"
    /\ Len(args.dense_layer_dims) = 2
    /\ args.dense_layer_dims[1] # args.dense_layer_dims[2]
    /\ Len(LayersOfType(model.layers, "Dense")) = 3

\* C6: every convolution branch is pooled to one value per filter of its
\* convolution layer, and the concatenated vector that dropout receives has
\* as many values as the convolution layers have filters in total, whatever
\* max_len and the window widths are.
C6_EncoderVectorLength ==
    /\ \A p \in IndexesOfType("GlobalMaxPooling1D") :
          /\ layers[p].inbound = << p - 1 >>
          /\ layers[p - 1].type = "Conv1D"
          /\ layers[p].shape = << layers[p - 1].filters >>
    /\ \A c \in IndexesOfType("Concatenate") :
          /\ layers[c].shape =
                << Sum([k \in 1..Len(ConvLayers) |-> ConvLayers[k].filters]) >>
          /\ Len(layers[c].inbound) = Len(ConvLayers)
    /\ \A d \in IndexesOfType("Dropout") :
          /\ layers[d - 1].type = "Concatenate"
          /\ layers[d].inbound = << d - 1 >>
          /\ layers[d].shape = layers[d - 1].shape

\* C6 witness: two branches of different window widths and filter counts
\* were concatenated and passed to dropout, with the long input
C6_Witness ==
    /\ runPc = "dense"
    /\ max_len = 40
    /\ Len(ConvLayers) = 2
    /\ ConvLayers[1].kernel_size # ConvLayers[2].kernel_size
    /\ ConvLayers[1].filters # ConvLayers[2].filters
    /\ ConvLayers[1].shape[1] # ConvLayers[2].shape[1]

\* C7 as stated: a call with no arguments builds three convolution layers of
\* window widths 2, 3 and 4, each with 10 filters.
C7_DefaultConvLayers ==
    (kwargs.given = {} /\ ConvDone) =>
        /\ Len(ConvLayers) = 3
        /\ \A k \in 1..Len(ConvLayers) :
              /\ ConvLayers[k].kernel_size = << 2, 3, 4 >>[k]
              /\ ConvLayers[k].filters = 10

\* C8 as stated: the rate of the dropout layer is the `dropout` argument of
\* the call, which is the value printed under 'dropout'.
C8_DropoutRateIsArgument ==
    /\ \A d \in IndexesOfType("Dropout") : layers[d].rate = args.dropout
    /\ \A k \in 1..Len(stdout) :
          stdout[k][1] = "config" =>
              \A d \in IndexesOfType("Dropout") :
                  layers[d].rate = stdout[k][2].dropout

\* ------------------------------------------------------------------------
\* Claims about the tuning section
\* ------------------------------------------------------------------------
\* The evaluations on a split that precede position t of the log
EarlierOn(on, t) == { k \in 1..(t - 1) : evalLog[k].split = on }

\* C9: every model evaluated on the test split was evaluated on the dev
\* split earlier, every model trained by then has a recorded dev accuracy,
\* and fewer than three of them have a higher one.
C9_TestedAreTopThreeOnDev ==
    \A t \in 1..Len(evalLog) :
        evalLog[t].split = "test" =>
            /\ \E k \in EarlierOn("dev", t) :
                  /\ evalLog[k].name = evalLog[t].name
                  /\ evalLog[k].id = evalLog[t].id
                  /\ Cardinality({ evalLog[m].name : m \in
                        { m \in EarlierOn("dev", t) :
                            evalLog[m].acc > evalLog[k].acc } }) < 3
            /\ \A n \in evalLog[t].bound :
                  \E k \in EarlierOn("dev", t) : evalLog[k].name = n

\* C9 witness: three models were evaluated on the test split, after dev
\* evaluations of more than three models
C9_Witness ==
    /\ Cardinality({ evalLog[t].name : t \in
                       { t \in 1..Len(evalLog) : evalLog[t].split = "test" } }) = 3
    /\ Cardinality({ evalLog[t].name : t \in
                       { t \in 1..Len(evalLog) : evalLog[t].split = "dev" } }) > 3

\* Every scheduled cell has been executed
NotebookDone == schedule = <<>> /\ cell = 0 /\ runPc = "idle"

\* C10 as stated: the notebook makes at least 10 calls of run, no two with
\* the same arguments after defaults are filled in.
C10_TenDistinctRuns ==
    NotebookDone =>
        /\ Len(runCalls) >= 10
        /\ \A a, b \in 1..Len(runCalls) : a # b => runCalls[a] # runCalls[b]

\* ------------------------------------------------------------------------
\* The lines load_embeddings leaves out
\* ------------------------------------------------------------------------
\* The number of lines, among the first n of the file, that are the header
\* row: the first line of the file when it has exactly two items
HeaderRows(n) == IF n >= 1 /\ Len(fileItems[1]) = 2 THEN 1 ELSE 0

\* C11 as stated: only a first line of exactly two items is left out. While
\* the loop runs and after it, every line read so far other than such a
\* first line has contributed one label and one row, and the returned table
\* has one row for each of them.
C11_OnlyFirstLineSkipped ==
    (openError = "none" /\ loadPc \in { "loop", "returned", "bound", "done" }) =>
        /\ Len(labels) = i - HeaderRows(i)
        /\ Len(rows) = i - HeaderRows(i)
        /\ (loadPc # "loop" => Len(returned.data) = Len(fileItems) - HeaderRows(Len(fileItems)))

\* ------------------------------------------------------------------------
\* The order of the steps of run
\* ------------------------------------------------------------------------
\* The positions of a call of run that raises nothing, in order. At "conv"
\* the convolution branches are built and then concatenated; at "dense" the
\* dense layers are built and then the output layer.
RunOrder == << "called", "input", "embedding", "conv", "dropout", "dense",
               "compile", "print", "reset", "fit", "returned" >>

InRun(pc) == pc \notin { "idle", "raised" }
PositionTable ==
    [pc \in { RunOrder[k] : k \in 1..Len(RunOrder) } |->
        CHOOSE k \in 1..Len(RunOrder) : RunOrder[k] = pc]
PositionOf(pc) == PositionTable[pc]

\* The call has passed the position pc
PastPosition(pc) == InRun(runPc) /\ PositionTable[runPc] > PositionTable[pc]

\* The place of a layer type in the order of construction
LayerRank(type) ==
    CASE type = "Input" -> 1
      [] type = "Embedding" -> 2
      [] type = "Conv1D" -> 3
      [] type = "GlobalMaxPooling1D" -> 3
      [] type = "Concatenate" -> 4
      [] type = "Dropout" -> 5
      [] type = "Dense" -> 6

\* The layers constructed so far follow the order input, embedding,
\* convolution branches (a convolution, then its pooling), concatenation,
\* dropout, dense layers, output layer; each step passed has left its layers
LayersInOrder ==
    LET n == Len(layers)
        branches == Len(ConvPairs(args))
    IN  /\ \A a \in 1..(n - 1) :
              /\ LayerRank(layers[a].type) <= LayerRank(layers[a + 1].type)
              /\ LayerRank(layers[a].type) = LayerRank(layers[a + 1].type)
                    => layers[a].type \in { "Conv1D", "GlobalMaxPooling1D", "Dense" }
              /\ layers[a].type = "Conv1D" => layers[a + 1].type = "GlobalMaxPooling1D"
              /\ layers[a].activation # "softmax"
        /\ PastPosition("input") => (n >= 1 /\ layers[1].type = "Input")
        /\ PastPosition("embedding") => (n >= 2 /\ layers[2].type = "Embedding")
        /\ PastPosition("conv") =>
              /\ n >= 3 + 2 * branches
              /\ \A j \in 1..branches : layers[1 + 2 * j].type = "Conv1D"
              /\ layers[3 + 2 * branches].type = "Concatenate"
        /\ PastPosition("dropout") =>
              (n >= 4 + 2 * branches /\ layers[4 + 2 * branches].type = "Dropout")
        /\ PastPosition("dense") =>
              /\ n = 5 + 2 * branches + Len(args.dense_layer_dims)
              /\ layers[n].type = "Dense"
              /\ layers[n].activation = "softmax"

\* What the call has printed so far: nothing before the print step, then the
\* configuration once, then one line per finished epoch
OutputInOrder ==
    /\ (InRun(runPc) /\ ~PastPosition("print")) => stdout = <<>>
    /\ PastPosition("print") => Len(stdout) >= 1
    /\ Len(stdout) >= 1 =>
          /\ stdout[1] = << "config", Printed(args) >>
          /\ Len(stdout) = epochsDone + 1
          /\ \A k \in 2..Len(stdout) : stdout[k] = EpochLine(k - 1, args.epochs)

\* The model is compiled once all its layers exist, trained only by fit, and
\* returned with exactly `epochs` epochs
ModelInOrder ==
    /\ (InRun(runPc) /\ ~PastPosition("compile")) => model = NoModel
    /\ PastPosition("compile") => (model.compiled /\ model.layers = layers)
    /\ (InRun(runPc) /\ ~PastPosition("reset")) => epochsDone = 0
    /\ epochsDone <= args.epochs
    /\ PastPosition("compile") => model.epochs = epochsDone
    /\ runPc = "returned" => epochsDone = args.epochs

\* A step moves the call to the next position or ends it with an exception
\* (and the exception is final); layers are added only up to the output
\* layer; epochs are counted one at a time and only by fit
StepInOrder ==
    /\ runPc' # runPc =>
          /\ InRun(runPc)
          /\ runPc # "returned"
          /\ \/ runPc' = "raised"
             \/ InRun(runPc') /\ PositionOf(runPc') = PositionOf(runPc) + 1
    /\ layers' # layers =>
          /\ runPc \in { "input", "embedding", "conv", "dropout", "dense" }
          /\ Len(layers') > Len(layers)
          /\ SubSeq(layers', 1, Len(layers)) = layers
    /\ epochsDone' # epochsDone =>
          /\ runPc = "fit"
          /\ epochsDone' = epochsDone + 1
    /\ stdout' # stdout =>
          /\ runPc \in { "print", "fit" }
          /\ Len(stdout') = Len(stdout) + 1
          /\ SubSeq(stdout', 1, Len(stdout)) = stdout

\* C12: every call of run goes through input, embedding, convolution
\* branches, concatenation, dropout, dense layers, output layer, compile,
\* print, reset_states, fit in this order; the configuration is printed once
\* and before the first epoch; fit runs exactly `epochs` epochs and the model
\* is returned only after the last one.
C12_StepsInFixedOrder ==
    [][ /\ StepInOrder
        /\ LayersInOrder'
        /\ OutputInOrder'
        /\ ModelInOrder' ]_vars

\* C12 witness: a call with two convolution branches and two dense layers
\* returned after ten epochs, having printed the configuration and ten
\* epoch lines
C12_Witness ==
    /\ runPc = "returned"
    /\ args.epochs = 10
    /\ Len(stdout) = 11
    /\ stdout[1][1] = "config"
    /\ stdout[11] = EpochLine(10, 10)
    /\ Cardinality(IndexesOfType("Conv1D")) = 2
    /\ Cardinality(IndexesOfType("Dense")) = 3
    /\ model.epochs = 10

\* ------------------------------------------------------------------------
\* The order the cells were executed in
\* ------------------------------------------------------------------------
\* The cell being executed, followed by the cells still to execute
ToExecute == (IF cell # 0 THEN << cell >> ELSE <<>>) \o schedule

\* Cell b is executed after a cell that stands below it in the document
OutOfOrder(b) ==
    \E j, k \in 1..Len(ToExecute) :
        j < k /\ ToExecute[k] = b /\ ToExecute[j] > b

\* C13 as stated: the execution counts strictly increase in document order.
\* Executing the cells in the order of their counts, a cell is never
\* executed after a cell that stands below it in the document.
C13_CountsIncreaseInDocumentOrder ==
    \A b \in 1..Len(Cells) : ~OutOfOrder(b)

\* The cells whose count is later than their place in the document: the cell
\* that defines run and the two cells of model5
DefinesRun(c) == Cells[c].stmts = << DefRunStmt >>
OfModel5(c) ==
    /\ Len(Cells[c].stmts) = 1
    /\ Cells[c].stmts[1].name = "model5"
    /\ Cells[c].stmts[1].op \in { "run", "evaluate" }

\* C13 amended: the execution counts of the code cells are pairwise
\* different and increase in document order except at the cell that defines
\* run and the two cells of model5, whose counts are later than those of
\* cells below them. Executing the cells in the order of their counts, no
\* cell is executed twice, and only these three cells are executed after a
\* cell that stands below them in the document.
C13_CountsIncreaseButForReruns ==
    /\ \A j, k \in 1..Len(ToExecute) : j # k => ToExecute[j] # ToExecute[k]
    /\ \A b \in 1..Len(Cells) : OutOfOrder(b) => (DefinesRun(b) \/ OfModel5(b))

\* C13 witness: run is defined and a cell of model6 is being executed while
\* a cell of model5, above it in the document and with a later count, is
\* still to execute
C13_Witness ==
    /\ cell # 0
    /\ Len(Cells[cell].stmts) = 1
    /\ Cells[cell].stmts[1].name = "model6"
    /\ \E b \in 1..Len(Cells) :
          /\ OutOfOrder(b)
          /\ OfModel5(b)
          /\ Cells[b].execution_count > Cells[cell].execution_count
    /\ "run" \in globals

\* ------------------------------------------------------------------------
\* The names the cells read
\* ------------------------------------------------------------------------
\* The kernel was started fresh: no cell binds epochs or dropout_rate, so
\* only a kernel that holds the names of an earlier session has them
FreshKernel == globals \cap { "epochs", "dropout_rate" } = {}

\* The cells are executed top to bottom and the last one is not finished:
\* the cell being executed and the cells to execute are the end of the
\* document
DocumentOrderRun ==
    /\ ToExecute # <<>>
    /\ ToExecute = SubSeq(DocumentOrder, Len(DocumentOrder) - Len(ToExecute) + 1,
                          Len(DocumentOrder))

\* C14 as stated: executing the code cells once each in document order from
\* a fresh kernel, no cell and no call of run stops on an unbound name:
\* NameError ends no cell and leaves no call of run.
C14_NoUnboundName ==
    (FreshKernel /\ DocumentOrderRun) =>
        /\ \A k \in 1..Len(errors) : errors[k][2] # "NameError"
        /\ runRaised # "NameError"

=============================================================================
